---- MODULE Spec2Model ----
(***************************************************************************)
(* Universal water heater: the thermostat decision function, the schedule  *)
(* and solar selector, the control evaluation, the event monitor, the mode *)
(* select entity, the coordinator's setup and refresh, and the validator   *)
(* of the time windows.                                                    *)
(*                                                                         *)
(* Temperatures are whole degrees Celsius, battery state of charge is a    *)
(* percentage, times of day are points 0..MaxTime of one day.              *)
(*                                                                         *)
(* Python's None is the empty tuple; an optional value v is <<v>>.  The    *)
(* state string of a host entity is <<"unavailable">>, <<"unknown">>,      *)
(* <<"on">>, <<"off">>, <<"garbage">> (a text that is no number) or        *)
(* <<"num", n>> (the decimal text of the number n); a missing state        *)
(* object is None.                                                         *)
(***************************************************************************)
EXTENDS Integers, Sequences, FiniteSets, TLC

VARIABLES
    config_entry,      \* config_entry.data["temperatures"] and config_entry.options
    now,               \* dt_util.now().time()
    sun,               \* hass.states.get(sun_entity_id): None or [state, elevation]
    temp_state,        \* hass.states.get(temperature_source_entity_id)
    switch_state,      \* hass.states.get(switch_source_entity_id)
    battery_state,     \* hass.states.get(battery_soc_entity_id)
    coordinator_data,  \* coordinator.data: None or [mode |-> None or <<mode>>]
    status,            \* the status sensor's _attr_native_value
    tasks,             \* tasks created with hass.async_create_task, not yet run
    _attr_current_option,  \* the mode select entity's attribute: None or <<mode>>
    _temperature_monitor,  \* coordinator._temperature_monitor is set (FALSE: None)
    call,              \* the last call of should_turn_on_heater: None or <<args, result>>
    last               \* what the last step did: its kind, inputs and the commands it issued

vars == <<config_entry, now, sun, temp_state, switch_state, battery_state,
          coordinator_data, status, tasks, _attr_current_option, _temperature_monitor,
          call, last>>

----------------------------------------------------------------------------
\* Bounds of the model

MaxTime == 5            \* times of day are 0..MaxTime
ReadingSlack == 1       \* readings lie within this distance of a threshold
MaxTasks == 1           \* pending tasks of one kind

----------------------------------------------------------------------------
\* Python values

None == <<>>
Some(v) == <<v>>
Get(opt, default) == IF opt = None THEN default ELSE opt[1]
Num(n) == <<"num", n>>
STATE_UNAVAILABLE == <<"unavailable">>
STATE_UNKNOWN == <<"unknown">>

\* float(text): the number, or None for the ValueError/TypeError the callers catch
float(text) == IF Len(text) = 2 /\ text[1] = "num" THEN Some(text[2]) ELSE None

Mode == [NORMAL |-> "normal", OPTIMISED |-> "optimised", ECO |-> "eco", OFF |-> "off"]
ModeValues == {Mode.NORMAL, Mode.OPTIMISED, Mode.ECO, Mode.OFF}

DEFAULT_BATTERY_THRESHOLD == 20
DEFAULT_BATTERY_RESUME_THRESHOLD == 35
DEFAULT_NORMAL_TEMPERATURE == 65
DEFAULT_ECO_TEMPERATURE == 55
DEFAULT_MAX_TEMPERATURE == 75
DEFAULT_HYSTERESIS == 4
DEFAULT_SUN_ANGLE == 0

----------------------------------------------------------------------------
\* utils/control_logic.py: WaterHeaterControlLogic

temperatures == config_entry.temperatures
options == config_entry.options

\* _is_time_in_range, on parsed times
_is_time_in_range(current, start, end) ==
    IF start <= end
    THEN start <= current /\ current <= end
    ELSE current >= start \/ current <= end

\* all([normal_mode_start, normal_mode_end, eco_mode_start, eco_mode_end])
TimesConfigured ==
    /\ options.normal_mode_start # None
    /\ options.normal_mode_end # None
    /\ options.eco_mode_start # None
    /\ options.eco_mode_end # None

\* Mutant: outside both windows the eco temperature is the target
_get_time_based_temperature_eco_outside ==
    IF ~TimesConfigured
    THEN Some(Get(temperatures.eco_temperature, DEFAULT_ECO_TEMPERATURE))
    ELSE IF _is_time_in_range(now, options.normal_mode_start[1], options.normal_mode_end[1])
    THEN Some(Get(temperatures.normal_temperature, DEFAULT_NORMAL_TEMPERATURE))
    ELSE Some(Get(temperatures.eco_temperature, DEFAULT_ECO_TEMPERATURE))

_get_time_based_temperature ==
    IF ~TimesConfigured
    THEN Some(Get(temperatures.eco_temperature, DEFAULT_ECO_TEMPERATURE))
    ELSE IF _is_time_in_range(now, options.normal_mode_start[1], options.normal_mode_end[1])
    THEN Some(Get(temperatures.normal_temperature, DEFAULT_NORMAL_TEMPERATURE))
    ELSE IF _is_time_in_range(now, options.eco_mode_start[1], options.eco_mode_end[1])
    THEN Some(Get(temperatures.eco_temperature, DEFAULT_ECO_TEMPERATURE))
    ELSE None

\* Mutant: an elevation equal to the angle counts as above
SunAboveAngle_or_equal(elevation, sun_angle_threshold) ==
    /\ float(elevation) # None
    /\ float(elevation)[1] >= sun_angle_threshold

\* elevation_value > sun_angle_threshold, False when float(elevation) raises
SunAboveAngle(elevation, sun_angle_threshold) ==
    /\ float(elevation) # None
    /\ float(elevation)[1] > sun_angle_threshold

_get_solar_based_temperature ==
    LET sun_angle_threshold == Get(options.sun_angle, DEFAULT_SUN_ANGLE)
        eco == Some(Get(temperatures.eco_temperature, DEFAULT_ECO_TEMPERATURE))
    IN  IF ~options.sun_entity_id
        THEN eco
        ELSE IF sun = None \/ sun.state \in {STATE_UNAVAILABLE, STATE_UNKNOWN}
        THEN eco
        ELSE IF sun.elevation = None
        THEN eco
        ELSE IF SunAboveAngle(sun.elevation, sun_angle_threshold)
        THEN Some(Get(temperatures.normal_temperature, DEFAULT_NORMAL_TEMPERATURE))
        ELSE eco

_get_optimised_target_temperature ==
    IF options.use_solar_control
    THEN _get_solar_based_temperature
    ELSE _get_time_based_temperature

\* Mutant: the limit itself is not over-temperature
IsOvertemp_strict(current_temp, max_temperature) ==
    max_temperature # None /\ current_temp > max_temperature[1]

\* max_temperature is not None and current_temp >= max_temperature
IsOvertemp(current_temp, max_temperature) ==
    max_temperature # None /\ current_temp >= max_temperature[1]

\* Mutant: mode off is not recognised
IsOff_never(current_mode) == FALSE

\* current_mode == Mode.OFF
IsOff(current_mode) == current_mode = Mode.OFF

\* Mutant: one threshold for both heater states
BatteryForcesOff_single_threshold(is_heater_on, battery_soc) ==
    /\ options.battery_aware
    /\ battery_soc # None
    /\ battery_soc[1] < Get(options.battery_threshold, DEFAULT_BATTERY_THRESHOLD)

\* The battery-aware constraint forces the heater off
BatteryForcesOff(is_heater_on, battery_soc) ==
    /\ options.battery_aware
    /\ battery_soc # None
    /\ IF is_heater_on
       THEN battery_soc[1] < Get(options.battery_threshold, DEFAULT_BATTERY_THRESHOLD)
       ELSE battery_soc[1] < Get(options.battery_resume_threshold,
                                 DEFAULT_BATTERY_RESUME_THRESHOLD)

\* Mutant: normal mode takes the target of optimised mode
TargetTemperature_normal_as_optimised(current_mode) ==
    IF current_mode = Mode.ECO
    THEN Some(Get(temperatures.eco_temperature, DEFAULT_ECO_TEMPERATURE))
    ELSE _get_optimised_target_temperature

\* The target temperature of a mode: None when optimised mode has no target
TargetTemperature(current_mode) ==
    IF current_mode = Mode.NORMAL
    THEN Some(Get(temperatures.normal_temperature, DEFAULT_NORMAL_TEMPERATURE))
    ELSE IF current_mode = Mode.ECO
    THEN Some(Get(temperatures.eco_temperature, DEFAULT_ECO_TEMPERATURE))
    ELSE IF current_mode = Mode.OPTIMISED
    THEN _get_optimised_target_temperature
    ELSE Some(Get(temperatures.normal_temperature, DEFAULT_NORMAL_TEMPERATURE))

\* Mutant: no dead band
Hysteresis_no_band(current_temp, target_temp, hysteresis, is_heater_on) ==
    current_temp < target_temp

\* Mutant: the dead band is inverted
Hysteresis_inverted_band(current_temp, target_temp, hysteresis, is_heater_on) ==
    IF is_heater_on
    THEN current_temp < target_temp - hysteresis
    ELSE current_temp < target_temp + hysteresis

\* The hysteresis comparison
Hysteresis(current_temp, target_temp, hysteresis, is_heater_on) ==
    IF is_heater_on
    THEN current_temp < target_temp + hysteresis
    ELSE current_temp < target_temp - hysteresis

\* The result is <<should_turn_on, is_overtemp>>
should_turn_on_heater(current_temp, current_mode, is_heater_on, battery_soc, max_temperature) ==
    IF IsOvertemp(current_temp, max_temperature)
    THEN <<FALSE, TRUE>>
    ELSE IF IsOff(current_mode)
    THEN <<FALSE, FALSE>>
    ELSE IF BatteryForcesOff(is_heater_on, battery_soc)
    THEN <<FALSE, FALSE>>
    ELSE LET hysteresis == Get(temperatures.hysteresis, DEFAULT_HYSTERESIS)
             target_temp == TargetTemperature(current_mode)
         IN  IF target_temp = None
             THEN <<FALSE, FALSE>>
             ELSE <<Hysteresis(current_temp, target_temp[1], hysteresis, is_heater_on), FALSE>>

----------------------------------------------------------------------------
\* utils/control_logic.py: async_evaluate_and_control_heater

\* Mutant: only a missing state object counts
Unavailable_missing_only(state) == state = None

\* not state or state.state in (STATE_UNAVAILABLE, STATE_UNKNOWN)
Unavailable(state) == state = None \/ state \in {STATE_UNAVAILABLE, STATE_UNKNOWN}

\* Service calls: <<domain, service, the option naming the target entity>>
TurnOn == <<"homeassistant", "turn_on", "switch_source_entity_id">>
TurnOff == <<"homeassistant", "turn_off", "switch_source_entity_id">>
UpdateStatusEntity == <<"homeassistant", "update_entity", "status">>

\* The battery state of charge handed to the decision
BatterySoc ==
    IF options.battery_aware /\ options.battery_soc_entity_id
       /\ battery_state # None /\ battery_state \notin {STATE_UNKNOWN, STATE_UNAVAILABLE}
    THEN float(battery_state)
    ELSE None

\* The result of one evaluation: the service calls it issues, the call of
\* should_turn_on_heater it makes (None when it returns before), and whether
\* an exception reached the handler of line 453, which logs it.
Evaluation(issued, made, logged) == [issued |-> issued, call |-> made, logged |-> logged]

\* Mutant: the decision is applied whatever the switch state
Commands_whatever_the_switch(result, is_heater_on) ==
    IF result[1] THEN <<TurnOn>> ELSE <<TurnOff>>

\* The commands that follow the decision <<should_turn_on, is_overtemp>>
Commands(result, is_heater_on) ==
    IF result[2]
    THEN (IF is_heater_on THEN <<TurnOff>> ELSE <<>>)
         \o (IF config_entry.host.status_by_title THEN <<UpdateStatusEntity>> ELSE <<>>)
    ELSE IF result[1] /\ ~is_heater_on
    THEN <<TurnOn>>
    ELSE IF ~result[1] /\ is_heater_on
    THEN <<TurnOff>>
    ELSE <<>>

async_evaluate_and_control_heater ==
    IF ~options.temperature_source_entity_id \/ ~options.switch_source_entity_id
    THEN Evaluation(<<>>, None, FALSE)
    ELSE IF Unavailable(temp_state)
    THEN Evaluation(<<>>, None, FALSE)
    ELSE IF Unavailable(switch_state)
    THEN Evaluation(<<>>, None, FALSE)
    ELSE IF float(temp_state) = None
    THEN Evaluation(<<>>, None, FALSE)
    ELSE IF coordinator_data = None
    THEN Evaluation(<<>>, None, TRUE)
    ELSE LET current_temp == float(temp_state)[1]
             current_mode == Get(coordinator_data.mode, Mode.OPTIMISED)
             is_heater_on == switch_state = <<"on">>
             max_temperature == Some(Get(temperatures.max_temperature, DEFAULT_MAX_TEMPERATURE))
             battery_soc == BatterySoc
             result == should_turn_on_heater(current_temp, current_mode, is_heater_on,
                                             battery_soc, max_temperature)
         IN  Evaluation(Commands(result, is_heater_on),
                        [current_temp |-> current_temp, current_mode |-> current_mode,
                         is_heater_on |-> is_heater_on, battery_soc |-> battery_soc,
                         max_temperature |-> max_temperature, result |-> result],
                        FALSE)

----------------------------------------------------------------------------
\* sensor/status.py: UniversalWaterHeaterStatusSensor

\* update_status, run by the sensor's listener of the temperature source, whose
\* state is now temp: the new status
update_status(temp) ==
    IF options.temperature_source_entity_id
       /\ temp # None /\ temp \notin {STATE_UNKNOWN, STATE_UNAVAILABLE}
       /\ float(temp) # None
    THEN LET current_temp == float(temp)[1]
             max_temperature == Get(temperatures.max_temperature, DEFAULT_MAX_TEMPERATURE)
             normal_temperature == Get(temperatures.normal_temperature, DEFAULT_NORMAL_TEMPERATURE)
         IN  IF current_temp >= max_temperature
             THEN "Overtemp"
             ELSE IF status = "Overtemp" /\ current_temp < normal_temperature
             THEN "Normal"
             ELSE status
    ELSE status

----------------------------------------------------------------------------
\* select/mode.py: UniversalWaterHeaterModeSelect

\* [mode.value for mode in Mode]
IsModeValue(value) == value \in ModeValues

\* The property current_option
current_option ==
    LET mode_value == IF coordinator_data = None THEN None ELSE coordinator_data.mode
    IN  IF mode_value # None /\ IsModeValue(mode_value[1])
        THEN mode_value[1]
        ELSE IF _attr_current_option # None
        THEN _attr_current_option[1]
        ELSE Mode.NORMAL

\* async_added_to_hass with the restored last_state (None: no previous state):
\* the attribute and the coordinator data it leaves
async_added_to_hass(last_state) ==
    IF last_state # None
    THEN IF IsModeValue(last_state[1])
         THEN [attr |-> Some(last_state[1]), data |-> [mode |-> Some(last_state[1])]]
         ELSE [attr |-> Some(Mode.NORMAL), data |-> coordinator_data]
    ELSE [attr |-> Some(Mode.NORMAL), data |-> [mode |-> Some(Mode.NORMAL)]]

\* hass.states.get of "sensor.<title>_status" in async_select_option
StatusState == IF config_entry.host.status_by_title THEN Some(status) ELSE None

\* Mutant: the task is created for every stored mode
SkipsTrigger_never(option) == FALSE

\* option == Mode.OFF and status_state and status_state.state == "Overtemp"
SkipsTrigger(option) == option = Mode.OFF /\ StatusState = Some("Overtemp")

\* async_select_option: the attribute and the coordinator data it leaves and
\* the tasks it creates
async_select_option(option) ==
    IF IsModeValue(option)
    THEN [attr |-> Some(option), data |-> [mode |-> Some(option)],
          scheduled |-> IF SkipsTrigger(option) THEN <<>> ELSE <<"trigger_control_logic">>]
    ELSE [attr |-> _attr_current_option, data |-> coordinator_data, scheduled |-> <<>>]

\* service_actions/__init__.py: the services async_setup_services registers
RegisteredServices ==
    {"example_action", "reload_data", "set_target_temperature", "set_eco_temperature"}

\* _async_trigger_control_logic: hass.services.async_call(DOMAIN,
\* "evaluate_control_logic", blocking=False) runs the service's handler, which
\* evaluates, when the service is registered; otherwise it raises, and the
\* exception is caught and logged at debug level.  The tasks it creates.
_async_trigger_control_logic ==
    IF "evaluate_control_logic" \in RegisteredServices THEN <<"evaluate">> ELSE <<>>

\* coordinator/base.py: _async_update_data returns {}, which becomes coordinator.data
_async_update_data == [mode |-> None]

----------------------------------------------------------------------------
\* config_flow_handler/validators/time_range.py
\*
\* A time string is <<"HH:MM", t>> or <<"HH:MM:SS", t>> (the text of the time
\* t in that format), <<"garbage">> (a text strptime rejects) or None.

\* parse_time: the time, or None for the ValueError/TypeError the caller catches
parse_time(time_str) ==
    IF time_str # None /\ Len(time_str) = 2 /\ time_str[1] \in {"HH:MM", "HH:MM:SS"}
    THEN Some(time_str[2])
    ELSE None

\* Mutant: a range is never taken to cross midnight
is_in_range_no_midnight(check_time, range_start, range_end) ==
    range_start <= check_time /\ check_time <= range_end

is_in_range(check_time, range_start, range_end) ==
    IF range_start <= range_end
    THEN range_start <= check_time /\ check_time <= range_end
    ELSE check_time >= range_start \/ check_time <= range_end

validate_time_ranges_no_overlap(normal_start, normal_end, eco_start, eco_end) ==
    LET normal_start_time == parse_time(normal_start)
        normal_end_time == parse_time(normal_end)
        eco_start_time == parse_time(eco_start)
        eco_end_time == parse_time(eco_end)
    IN  IF None \in {normal_start_time, normal_end_time, eco_start_time, eco_end_time}
        THEN FALSE
        ELSE IF is_in_range(eco_start_time[1], normal_start_time[1], normal_end_time[1])
        THEN FALSE
        ELSE IF is_in_range(eco_end_time[1], normal_start_time[1], normal_end_time[1])
        THEN FALSE
        ELSE IF is_in_range(normal_start_time[1], eco_start_time[1], eco_end_time[1])
        THEN FALSE
        ELSE IF is_in_range(normal_end_time[1], eco_start_time[1], eco_end_time[1])
        THEN FALSE
        ELSE TRUE

----------------------------------------------------------------------------
\* coordinator/temperature_monitor.py: TemperatureMonitor

\* start_monitoring: the entities whose state changes reach _handle_state_change
entities_to_monitor ==
    (IF options.temperature_source_entity_id THEN {"temperature"} ELSE {})
    \cup (IF options.switch_source_entity_id THEN {"switch"} ELSE {})
    \cup (IF options.battery_aware /\ options.battery_soc_entity_id THEN {"battery"} ELSE {})

\* Mutant: a first state (no old state) is taken for no change
_handle_state_change_skips_first(entity_id, old_state, new_state) ==
    IF new_state = None
    THEN <<>>
    ELSE IF new_state \in {STATE_UNAVAILABLE, STATE_UNKNOWN}
    THEN <<"check_availability">>
    ELSE IF old_state # None /\ old_state \in {STATE_UNAVAILABLE, STATE_UNKNOWN}
    THEN <<"check_availability">>
    ELSE IF old_state = None \/ old_state = new_state
    THEN <<>>
    ELSE <<"evaluate">>

\* Mutant: no debouncing of repeated states
_handle_state_change_no_debounce(entity_id, old_state, new_state) ==
    IF new_state = None
    THEN <<>>
    ELSE IF new_state \in {STATE_UNAVAILABLE, STATE_UNKNOWN}
    THEN <<"check_availability">>
    ELSE IF old_state # None /\ old_state \in {STATE_UNAVAILABLE, STATE_UNKNOWN}
    THEN <<"check_availability">>
    ELSE <<"evaluate">>

\* _handle_state_change: the tasks it creates
_handle_state_change(entity_id, old_state, new_state) ==
    IF new_state = None
    THEN <<>>
    ELSE IF new_state \in {STATE_UNAVAILABLE, STATE_UNKNOWN}
    THEN <<"check_availability">>
    ELSE IF old_state # None /\ old_state \in {STATE_UNAVAILABLE, STATE_UNKNOWN}
    THEN <<"check_availability">>
    ELSE IF old_state # None /\ old_state = new_state
    THEN <<>>
    ELSE <<"evaluate">>

\* The entity the availability check takes for the heater switch: it reads the
\* option heater_switch_entity_id
CheckedSwitchConfigured == options.heater_switch_entity_id

\* unavailable_entities of _check_entity_availability
unavailable_entities ==
    (IF options.temperature_source_entity_id /\ Unavailable(temp_state)
     THEN {"temperature"} ELSE {})
    \cup (IF CheckedSwitchConfigured /\ Unavailable(switch_state) THEN {"switch"} ELSE {})
    \cup (IF options.battery_aware /\ options.battery_soc_entity_id /\ Unavailable(battery_state)
          THEN {"battery"} ELSE {})

\* The result of _check_entity_availability: the service calls it issues, the
\* status it leaves, and the evaluation it runs (None when it runs none)
_check_entity_availability ==
    LET found == config_entry.host.status_by_entry_id
    IN  IF unavailable_entities # {}
        THEN [issued |-> IF CheckedSwitchConfigured /\ switch_state = <<"on">>
                         THEN << <<"switch", "turn_off", "heater_switch_entity_id">> >>
                         ELSE <<>>,
              status |-> IF found = "entity" THEN "Error" ELSE status,
              evaluation |-> None]
        ELSE IF found # "none" /\ status = "Error"
        THEN [issued |-> <<>>,
              status |-> IF found = "entity" THEN "Normal" ELSE status,
              evaluation |-> Some(async_evaluate_and_control_heater)]
        ELSE [issued |-> <<>>, status |-> status, evaluation |-> None]

----------------------------------------------------------------------------
\* Configurations: config_entry.data["temperatures"] and config_entry.options

Temperatures(normal, eco, max, hyst) ==
    [normal_temperature |-> normal, eco_temperature |-> eco,
     max_temperature |-> max, hysteresis |-> hyst]

\* The options the flows write.  Entity ids are TRUE when configured; no flow
\* writes the key heater_switch_entity_id, so options.get of it is None.
Options(entities, battery, optimised) ==
    [temperature_source_entity_id |-> entities[1],
     switch_source_entity_id |-> entities[2],
     heater_switch_entity_id |-> FALSE,
     battery_aware |-> battery[1],
     battery_threshold |-> battery[2],
     battery_resume_threshold |-> battery[3],
     battery_soc_entity_id |-> battery[4],
     use_solar_control |-> optimised[1],
     normal_mode_start |-> optimised[2],
     normal_mode_end |-> optimised[3],
     eco_mode_start |-> optimised[4],
     eco_mode_end |-> optimised[5],
     sun_entity_id |-> optimised[6],
     sun_angle |-> optimised[7]]

TimeBased(ns, ne, es, ee) == <<FALSE, ns, ne, es, ee, FALSE, None>>
Solar(entity, angle) == <<TRUE, None, None, None, None, entity, angle>>

\* Temperature settings paired with battery options: the defaults, an eco
\* temperature above the normal one, a maximum below the normal temperature.
BaseConfigs ==
    { <<Temperatures(None, None, None, None), <<TRUE, None, None, TRUE>>>>,
      <<Temperatures(Some(60), Some(62), Some(70), Some(1)), <<FALSE, Some(30), Some(50), FALSE>>>>,
      <<Temperatures(Some(70), Some(50), Some(68), Some(2)), <<TRUE, Some(30), Some(50), TRUE>>>> }

\* Optimised-mode options: no times, one time unset, disjoint windows, windows
\* across midnight, overlapping windows; solar control without and with a sun
\* entity.
OptimisedConfigs ==
    { TimeBased(None, None, None, None),
      TimeBased(Some(1), Some(2), Some(3), None),
      TimeBased(Some(1), Some(2), Some(3), Some(4)),
      TimeBased(Some(4), Some(1), Some(2), Some(3)),
      TimeBased(Some(1), Some(3), Some(2), Some(4)),
      Solar(FALSE, Some(10)),
      Solar(TRUE, None),
      Solar(TRUE, Some(10)) }

\* What the host's registries answer: whether a sensor entity id starts with
\* "sensor.<entry_id>" and contains "_status" ("none": no such id, "state": its
\* state is found but no entity object in hass.data["sensor"], "entity": both),
\* and whether the state "sensor.<title>_status" exists.
Host(by_entry_id, by_title) == [status_by_entry_id |-> by_entry_id, status_by_title |-> by_title]

DecideConfigs ==
    { [temperatures |-> b[1], options |-> Options(<<TRUE, TRUE>>, b[2], o),
       host |-> Host("none", TRUE)] :
        b \in BaseConfigs, o \in OptimisedConfigs }

\* The sun entity: absent, unavailable, or with an elevation attribute that is
\* missing, no number, or a number around the configured angle.
SunStates(cfg) ==
    LET angle == Get(cfg.options.sun_angle, DEFAULT_SUN_ANGLE)
    IN  {None}
        \cup { [state |-> s, elevation |-> None] : s \in {STATE_UNAVAILABLE, STATE_UNKNOWN} }
        \cup { [state |-> <<"above_horizon">>, elevation |-> e] :
                 e \in {None, <<"garbage">>} \cup {Num(angle + d) : d \in -1..1} }

\* Readings around every threshold of the configuration
Thresholds ==
    LET n == Get(temperatures.normal_temperature, DEFAULT_NORMAL_TEMPERATURE)
        e == Get(temperatures.eco_temperature, DEFAULT_ECO_TEMPERATURE)
        m == Get(temperatures.max_temperature, DEFAULT_MAX_TEMPERATURE)
        h == Get(temperatures.hysteresis, DEFAULT_HYSTERESIS)
    IN  {n - h, n + h, e - h, e + h, m}

Readings == {th + d : th \in Thresholds, d \in -ReadingSlack..ReadingSlack}

SocValues ==
    LET bt == Get(options.battery_threshold, DEFAULT_BATTERY_THRESHOLD)
        brt == Get(options.battery_resume_threshold, DEFAULT_BATTERY_RESUME_THRESHOLD)
    IN  {t + d : t \in {bt, brt}, d \in {-1, 0}}

UnknownMode == "boost"

----------------------------------------------------------------------------
\* The steps of the model

Tasks == {"evaluate", "check_availability", "trigger_control_logic"}
NoTasks == [t \in Tasks |-> 0]

\* A step's record: the event it handled, the tasks it created, the service
\* calls it issued, and whether it logged an exception
Step(kind, entity, old, new, scheduled, issued, logged) ==
    [kind |-> kind, entity |-> entity, old |-> old, new |-> new,
     scheduled |-> scheduled, issued |-> issued, logged |-> logged]

NoStep == Step("init", "none", None, None, <<>>, <<>>, FALSE)

\* The arguments of a call of should_turn_on_heater, its result not yet computed
CallArguments ==
    [current_temp : Readings,
     current_mode : ModeValues \cup {UnknownMode},
     is_heater_on : BOOLEAN,
     battery_soc : {None} \cup {Some(v) : v \in SocValues},
     max_temperature : {None, Some(Get(temperatures.max_temperature, DEFAULT_MAX_TEMPERATURE))},
     result : {None}]

\* A direct call of should_turn_on_heater with the drawn arguments
CallShouldTurnOn ==
    /\ call # None
    /\ call.result = None
    /\ call' = [call EXCEPT !.result =
                    should_turn_on_heater(call.current_temp, call.current_mode,
                                          call.is_heater_on, call.battery_soc,
                                          call.max_temperature)]
    /\ last' = Step("call", "none", None, None, <<>>, <<>>, FALSE)
    /\ UNCHANGED <<config_entry, now, sun, temp_state, switch_state, battery_state,
                   coordinator_data, status, tasks>>
    /\ UNCHANGED <<_attr_current_option, _temperature_monitor>>

\* A later call of should_turn_on_heater with the arguments of the last one:
\* in between the clock has advanced (time-based control) or the sun entity
\* has been written (solar control).  The step records <<time, sun, result>>
\* of the earlier and of the later call.
CallAgainLater ==
    /\ call # None
    /\ call.result # None
    /\ IF options.use_solar_control
       THEN now' = now /\ sun' \in SunStates(config_entry)
       ELSE now' \in 0..MaxTime /\ sun' = sun
    /\ UNCHANGED <<config_entry, temp_state, switch_state, battery_state,
                   coordinator_data, status, tasks>>
    /\ UNCHANGED <<_attr_current_option, _temperature_monitor>>
    /\ \E args \in {call} :
           call' = [args EXCEPT !.result =
                       should_turn_on_heater(args.current_temp, args.current_mode,
                                             args.is_heater_on, args.battery_soc,
                                             args.max_temperature)']
    /\ last' = Step("call_again", "none", <<now, sun, call.result>>,
                    <<now', sun', call'.result>>, <<>>, <<>>, FALSE)

DecideInit ==
    /\ config_entry \in DecideConfigs
    /\ IF config_entry.options.use_solar_control
       THEN now = 0 /\ sun \in SunStates(config_entry)
       ELSE now \in 0..MaxTime /\ sun = None
    /\ temp_state = None
    /\ switch_state = None
    /\ battery_state = None
    /\ coordinator_data = None
    /\ status = "Normal"
    /\ tasks = NoTasks
    /\ _attr_current_option = None
    /\ _temperature_monitor = FALSE
    /\ call \in CallArguments
    /\ last = NoStep

----------------------------------------------------------------------------
\* The system: host entities change state, the monitor's listener creates
\* tasks, the event loop runs them.

SystemConfigs ==
    LET plain == TimeBased(None, None, None, None)
        defaults == Temperatures(None, None, None, None)
        custom == Temperatures(Some(60), Some(62), Some(70), Some(1))
        no_battery == <<FALSE, None, None, FALSE>>
    IN  { [temperatures |-> defaults, options |-> Options(<<TRUE, TRUE>>, no_battery, plain),
           host |-> Host("entity", TRUE)],
          [temperatures |-> custom,
           options |-> Options(<<TRUE, TRUE>>, <<TRUE, Some(30), Some(50), TRUE>>, plain),
           host |-> Host("state", FALSE)],
          [temperatures |-> defaults,
           options |-> Options(<<FALSE, TRUE>>, <<TRUE, None, None, FALSE>>, plain),
           host |-> Host("none", TRUE)],
          [temperatures |-> defaults,
           options |-> Options(<<TRUE, FALSE>>, <<FALSE, None, None, TRUE>>, plain),
           host |-> Host("entity", TRUE)],
          [temperatures |-> defaults,
           options |-> Options(<<TRUE, TRUE>>, no_battery,
                               TimeBased(Some(1), Some(2), Some(3), Some(4))),
           host |-> Host("none", TRUE)] }

\* The state strings the host entities take: a cold, a lukewarm and an
\* over-temperature reading; a low and a high state of charge.
TempStateValues ==
    LET n == Get(temperatures.normal_temperature, DEFAULT_NORMAL_TEMPERATURE)
        e == Get(temperatures.eco_temperature, DEFAULT_ECO_TEMPERATURE)
        m == Get(temperatures.max_temperature, DEFAULT_MAX_TEMPERATURE)
        h == Get(temperatures.hysteresis, DEFAULT_HYSTERESIS)
        cold == (IF n < e THEN n ELSE e) - h - ReadingSlack
    IN  {None, STATE_UNAVAILABLE, STATE_UNKNOWN, <<"garbage">>, Num(cold), Num(n), Num(m)}

SwitchStateValues == {None, STATE_UNAVAILABLE, STATE_UNKNOWN, <<"on">>, <<"off">>}

BatteryStateValues ==
    LET bt == Get(options.battery_threshold, DEFAULT_BATTERY_THRESHOLD)
        brt == Get(options.battery_resume_threshold, DEFAULT_BATTERY_RESUME_THRESHOLD)
    IN  {STATE_UNAVAILABLE, <<"garbage">>, Num(bt - 1), Num(brt)}

\* coordinator.data: None before the first refresh, {} after a refresh, or with
\* the mode the select entity stored.  With time windows the mode is optimised.
CoordinatorDataValues ==
    IF TimesConfigured
    THEN {[mode |-> Some(Mode.OPTIMISED)]}
    ELSE {None, [mode |-> None]} \cup { [mode |-> Some(m)] : m \in {Mode.NORMAL, Mode.OFF} }

\* hass.async_create_task for every task of scheduled
Schedule(scheduled) ==
    [t \in Tasks |-> tasks[t] + Len(SelectSeq(scheduled, LAMBDA x : x = t))]

CanSchedule(scheduled) == \A t \in Tasks : Schedule(scheduled)[t] <= MaxTasks

\* What the monitor's listener, once subscribed, creates for an event of entity_id
Listener(entity_id, old_state, new_state) ==
    IF _temperature_monitor /\ entity_id \in entities_to_monitor
    THEN _handle_state_change(entity_id, old_state, new_state)
    ELSE <<>>

\* The temperature source is written (or removed): the status sensor's and the
\* monitor's listeners run
TemperatureChanged ==
    \E new_state \in TempStateValues :
        LET scheduled == Listener("temperature", temp_state, new_state)
        IN  /\ options.temperature_source_entity_id
            /\ temp_state # None \/ new_state # None
            /\ CanSchedule(scheduled)
            /\ temp_state' = new_state
            /\ status' = update_status(new_state)
            /\ tasks' = Schedule(scheduled)
            /\ call' = None
            /\ last' = Step("event", "temperature", temp_state, new_state, scheduled, <<>>, FALSE)
            /\ UNCHANGED <<config_entry, now, sun, switch_state, battery_state, coordinator_data>>
            /\ UNCHANGED <<_attr_current_option, _temperature_monitor>>

\* The switch source is written (or removed), by a command or by anyone else
SwitchChanged ==
    \E new_state \in SwitchStateValues :
        LET scheduled == Listener("switch", switch_state, new_state)
        IN  /\ options.switch_source_entity_id
            /\ switch_state # None \/ new_state # None
            /\ CanSchedule(scheduled)
            /\ switch_state' = new_state
            /\ tasks' = Schedule(scheduled)
            /\ call' = None
            /\ last' = Step("event", "switch", switch_state, new_state, scheduled, <<>>, FALSE)
            /\ UNCHANGED <<config_entry, now, sun, temp_state, battery_state, coordinator_data,
                           status>>
            /\ UNCHANGED <<_attr_current_option, _temperature_monitor>>

\* The battery sensor is written (or removed)
BatteryChanged ==
    \E new_state \in BatteryStateValues :
        LET scheduled == Listener("battery", battery_state, new_state)
        IN  /\ options.battery_soc_entity_id
            /\ battery_state # None \/ new_state # None
            /\ CanSchedule(scheduled)
            /\ battery_state' = new_state
            /\ tasks' = Schedule(scheduled)
            /\ call' = None
            /\ last' = Step("event", "battery", battery_state, new_state, scheduled, <<>>, FALSE)
            /\ UNCHANGED <<config_entry, now, sun, temp_state, switch_state, coordinator_data,
                           status>>
            /\ UNCHANGED <<_attr_current_option, _temperature_monitor>>

\* The event loop runs a task created for async_evaluate_and_control_heater
RunEvaluate ==
    LET evaluation == async_evaluate_and_control_heater
    IN  /\ tasks["evaluate"] > 0
        /\ tasks' = [tasks EXCEPT !["evaluate"] = @ - 1]
        /\ call' = evaluation.call
        /\ last' = Step("evaluate", "none", None, None, <<>>, evaluation.issued,
                        evaluation.logged)
        /\ UNCHANGED <<config_entry, now, sun, temp_state, switch_state, battery_state,
                       coordinator_data, status>>
        /\ UNCHANGED <<_attr_current_option, _temperature_monitor>>

\* The event loop runs a task created for _check_entity_availability; the step
\* records the status before and after
RunCheckAvailability ==
    LET check == _check_entity_availability
    IN  /\ tasks["check_availability"] > 0
        /\ tasks' = [tasks EXCEPT !["check_availability"] = @ - 1]
        /\ status' = check.status
        /\ call' = IF check.evaluation = None THEN None ELSE check.evaluation[1].call
        /\ last' = Step("check_availability", "none", Some(status), Some(check.status), <<>>,
                        check.issued
                        \o (IF check.evaluation = None THEN <<>> ELSE check.evaluation[1].issued),
                        check.evaluation # None /\ check.evaluation[1].logged)
        /\ UNCHANGED <<config_entry, now, sun, temp_state, switch_state, battery_state,
                       coordinator_data>>
        /\ UNCHANGED <<_attr_current_option, _temperature_monitor>>

\* Time passes
Tick ==
    /\ TimesConfigured
    /\ now' = (now + 1) % (MaxTime + 1)
    /\ call' = None
    /\ last' = Step("tick", "none", None, None, <<>>, <<>>, FALSE)
    /\ UNCHANGED <<config_entry, sun, temp_state, switch_state, battery_state,
                   coordinator_data, status, tasks>>
    /\ UNCHANGED <<_attr_current_option, _temperature_monitor>>

\* coordinator._async_setup, run by the first refresh before the first
\* _async_update_data: async_setup_temperature_monitoring subscribes the
\* monitor and awaits the initial evaluation
AsyncSetup ==
    LET evaluation == async_evaluate_and_control_heater
    IN  /\ ~_temperature_monitor
        /\ _temperature_monitor' = TRUE
        /\ call' = evaluation.call
        /\ last' = Step("setup", "none", None, None, <<>>, evaluation.issued, evaluation.logged)
        /\ UNCHANGED <<config_entry, now, sun, temp_state, switch_state, battery_state,
                       coordinator_data, status, tasks, _attr_current_option>>

\* A refresh of the coordinator, the first one or an hourly one
UpdateData ==
    /\ _temperature_monitor
    /\ coordinator_data' = _async_update_data
    /\ call' = None
    /\ last' = Step("refresh", "none", None, None, <<>>, <<>>, FALSE)
    /\ UNCHANGED <<config_entry, now, sun, temp_state, switch_state, battery_state,
                   status, tasks, _attr_current_option, _temperature_monitor>>

\* The last states the host restores for the select entity
LastStates == {None, Some("unknown")} \cup {Some(m) : m \in ModeValues}

\* The platforms are set up after the first refresh: the select entity is added
AddedToHass ==
    \E last_state \in LastStates :
        LET added == async_added_to_hass(last_state)
        IN  /\ coordinator_data # None
            /\ _attr_current_option = None
            /\ _attr_current_option' = added.attr
            /\ coordinator_data' = added.data
            /\ call' = None
            /\ last' = Step("added", "select", None, last_state, <<>>, <<>>, FALSE)
            /\ UNCHANGED <<config_entry, now, sun, temp_state, switch_state, battery_state,
                           status, tasks, _temperature_monitor>>

\* The user selects a mode
SelectOption ==
    \E option \in ModeValues :
        LET selected == async_select_option(option)
        IN  /\ _attr_current_option # None
            /\ CanSchedule(selected.scheduled)
            /\ _attr_current_option' = selected.attr
            /\ coordinator_data' = selected.data
            /\ tasks' = Schedule(selected.scheduled)
            /\ call' = None
            /\ last' = Step("select", "select", None, Some(option), selected.scheduled,
                            <<>>, FALSE)
            /\ UNCHANGED <<config_entry, now, sun, temp_state, switch_state, battery_state,
                           status, _temperature_monitor>>

\* The event loop runs a task created for _async_trigger_control_logic
RunTriggerControlLogic ==
    LET scheduled == _async_trigger_control_logic
    IN  /\ tasks["trigger_control_logic"] > 0
        /\ \A t \in Tasks \ {"trigger_control_logic"} : Schedule(scheduled)[t] <= MaxTasks
        /\ tasks' = [Schedule(scheduled) EXCEPT !["trigger_control_logic"] = @ - 1]
        /\ call' = None
        /\ last' = Step("trigger_control_logic", "none", None, None, scheduled, <<>>,
                        scheduled = <<>>)
        /\ UNCHANGED <<config_entry, now, sun, temp_state, switch_state, battery_state,
                       coordinator_data, status, _attr_current_option, _temperature_monitor>>

Init ==
    /\ config_entry \in SystemConfigs
    /\ now = 0
    /\ sun = None
    /\ temp_state \in (IF config_entry.options.temperature_source_entity_id
                       THEN TempStateValues ELSE {None})
    /\ switch_state \in (IF config_entry.options.switch_source_entity_id
                         THEN SwitchStateValues ELSE {None})
    /\ battery_state \in (IF config_entry.options.battery_soc_entity_id
                          THEN BatteryStateValues ELSE {None})
    /\ coordinator_data \in CoordinatorDataValues
    /\ status = "Normal"
    /\ tasks = NoTasks
    /\ _attr_current_option = (IF coordinator_data = None THEN None ELSE coordinator_data.mode)
    /\ _temperature_monitor = TRUE
    /\ call = None
    /\ last = NoStep

Next ==
    \/ TemperatureChanged
    \/ SwitchChanged
    \/ BatteryChanged
    \/ RunEvaluate
    \/ RunCheckAvailability
    \/ Tick

Spec == Init /\ [][Next]_vars

\* The life of one entry: setup, refreshes, the select entity, events of the
\* temperature source
LifecycleConfigs ==
    { [temperatures |-> Temperatures(None, None, None, None),
       options |-> Options(<<TRUE, TRUE>>, <<FALSE, None, None, FALSE>>,
                           TimeBased(None, None, None, None)),
       host |-> Host("entity", TRUE)] }

LifecycleInit ==
    /\ config_entry \in LifecycleConfigs
    /\ now = 0
    /\ sun = None
    /\ temp_state \in TempStateValues
    /\ switch_state \in {<<"on">>, <<"off">>}
    /\ battery_state = None
    /\ coordinator_data = None
    /\ status = "Normal"
    /\ tasks = NoTasks
    /\ _attr_current_option = None
    /\ _temperature_monitor = FALSE
    /\ call = None
    /\ last = NoStep

LifecycleNext ==
    \/ AsyncSetup
    \/ UpdateData
    \/ AddedToHass
    \/ SelectOption
    \/ RunTriggerControlLogic
    \/ TemperatureChanged
    \/ RunEvaluate
    \/ RunCheckAvailability

LifecycleSpec == LifecycleInit /\ [][LifecycleNext]_vars

\* The event loop runs every task it holds: a created task is run in the end
FairSpec == Spec /\ WF_vars(RunEvaluate) /\ WF_vars(RunCheckAvailability)

DecideNext == CallShouldTurnOn

DecideSpec == DecideInit /\ [][DecideNext]_vars

\* Repeated calls of should_turn_on_heater: the calls without a state of
\* charge and with the configured maximum temperature
RecallInit ==
    /\ DecideInit
    /\ call.battery_soc = None
    /\ call.max_temperature # None

RecallNext == CallShouldTurnOn \/ CallAgainLater

RecallSpec == RecallInit /\ [][RecallNext]_vars

\* The time strings handed to the validator
TimeStrings ==
    {None, <<"garbage">>}
    \cup { <<format, t>> : format \in {"HH:MM", "HH:MM:SS"}, t \in 0..MaxTime }

\* The arguments of a call of validate_time_ranges_no_overlap, its result not
\* yet computed
ValidateArguments ==
    [normal_start : TimeStrings, normal_end : TimeStrings,
     eco_start : TimeStrings, eco_end : TimeStrings, result : {None}]

\* A call of validate_time_ranges_no_overlap with the drawn arguments
CallValidate ==
    /\ call # None
    /\ call.result = None
    /\ call' = [call EXCEPT !.result =
                    Some(validate_time_ranges_no_overlap(call.normal_start, call.normal_end,
                                                         call.eco_start, call.eco_end))]
    /\ last' = Step("validate", "none", None, None, <<>>, <<>>, FALSE)
    /\ UNCHANGED <<config_entry, now, sun, temp_state, switch_state, battery_state,
                   coordinator_data, status, tasks>>
    /\ UNCHANGED <<_attr_current_option, _temperature_monitor>>

\* The validator runs in the flows, before an entry exists: the configuration
\* is the one of the defaults
ValidateInit ==
    /\ config_entry = [temperatures |-> Temperatures(None, None, None, None),
                       options |-> Options(<<TRUE, TRUE>>, <<FALSE, None, None, FALSE>>,
                                           TimeBased(None, None, None, None)),
                       host |-> Host("none", FALSE)]
    /\ now = 0
    /\ sun = None
    /\ temp_state = None
    /\ switch_state = None
    /\ battery_state = None
    /\ coordinator_data = None
    /\ status = "Normal"
    /\ tasks = NoTasks
    /\ _attr_current_option = None
    /\ _temperature_monitor = FALSE
    /\ call \in ValidateArguments
    /\ last = NoStep

ValidateNext == CallValidate

ValidateSpec == ValidateInit /\ [][ValidateNext]_vars

----------------------------------------------------------------------------
\* The configured values the claims speak of

ConfiguredNormal == Get(temperatures.normal_temperature, DEFAULT_NORMAL_TEMPERATURE)
ConfiguredEco == Get(temperatures.eco_temperature, DEFAULT_ECO_TEMPERATURE)
ConfiguredHysteresis == Get(temperatures.hysteresis, DEFAULT_HYSTERESIS)
ConfiguredBatteryThreshold == Get(options.battery_threshold, DEFAULT_BATTERY_THRESHOLD)
ConfiguredBatteryResume ==
    Get(options.battery_resume_threshold, DEFAULT_BATTERY_RESUME_THRESHOLD)
ConfiguredSunAngle == Get(options.sun_angle, DEFAULT_SUN_ANGLE)

\* should_turn_on_heater has been called and has returned
Called == call # None /\ call.result # None

\* The call's temperature is at or above the max_temperature it was given
CallOvertemp ==
    call.max_temperature # None /\ call.current_temp >= call.max_temperature[1]

\* The call's state of charge is below the threshold of its heater state
CallBatteryLow ==
    /\ options.battery_aware
    /\ call.battery_soc # None
    /\ \/ call.is_heater_on /\ call.battery_soc[1] < ConfiguredBatteryThreshold
       \/ ~call.is_heater_on /\ call.battery_soc[1] < ConfiguredBatteryResume

\* The threshold-with-hysteresis comparison of the call against a target
CallBelow(target) ==
    IF call.is_heater_on
    THEN call.current_temp < target + ConfiguredHysteresis
    ELSE call.current_temp < target - ConfiguredHysteresis

\* The result of the temperature comparison alone, for an optional target
TemperatureDecision(target) ==
    IF target = None THEN <<FALSE, FALSE>> ELSE <<CallBelow(target[1]), FALSE>>

\* C1: whenever max_temperature is given and current_temp >= max_temperature
\* the result is (False, True), in every mode, heater state and state of
\* charge; in every other case is_overtemp is False.
C1_OvertempPriority ==
    Called =>
        /\ CallOvertemp => call.result = <<FALSE, TRUE>>
        /\ ~CallOvertemp => call.result[2] = FALSE

\* C1 happens: at the limit exactly, in normal mode with the heater on
C1_Witness ==
    /\ Called
    /\ call.max_temperature # None
    /\ call.current_temp = call.max_temperature[1]
    /\ call.current_mode = Mode.NORMAL
    /\ call.is_heater_on
    /\ call.result = <<FALSE, TRUE>>

\* C4: in normal mode, in eco mode and for an unrecognised mode (handled as
\* normal), when neither over-temperature nor the battery forces the heater
\* off, should_turn_on is current_temp < target + hysteresis with the heater
\* on and current_temp < target - hysteresis with the heater off.
C4_Hysteresis ==
    (Called /\ call.current_mode \in {Mode.NORMAL, Mode.ECO, UnknownMode}
        /\ ~CallOvertemp /\ ~CallBatteryLow) =>
        call.result = <<CallBelow(IF call.current_mode = Mode.ECO
                                  THEN ConfiguredEco ELSE ConfiguredNormal), FALSE>>

\* C4 happens: inside the dead band the heater that is on stays on
C4_Witness ==
    /\ Called
    /\ call.current_mode = Mode.ECO
    /\ call.is_heater_on
    /\ ~CallOvertemp /\ ~CallBatteryLow
    /\ call.current_temp >= ConfiguredEco - ConfiguredHysteresis
    /\ call.current_temp < ConfiguredEco + ConfiguredHysteresis
    /\ call.result = <<TRUE, FALSE>>

\* C5: with mode not off and no over-temperature, the result is (False, False)
\* when battery-aware is enabled, the state of charge is known and it is below
\* battery_threshold (heater on) or battery_resume_threshold (heater off); in
\* every other case, and whenever battery-aware is disabled or the state of
\* charge is None, it is the result of the temperature comparison alone.
C5_BatteryHysteresis ==
    (Called /\ call.current_mode # Mode.OFF /\ ~CallOvertemp) =>
        IF CallBatteryLow
        THEN call.result = <<FALSE, FALSE>>
        ELSE call.result = TemperatureDecision(TargetTemperature(call.current_mode))

\* C5 happens: between the two thresholds a cold heater that is off stays off
C5_Witness ==
    /\ Called
    /\ call.current_mode = Mode.NORMAL
    /\ ~call.is_heater_on
    /\ options.battery_aware
    /\ call.battery_soc # None
    /\ call.battery_soc[1] >= ConfiguredBatteryThreshold
    /\ call.battery_soc[1] < ConfiguredBatteryResume
    /\ call.current_temp < ConfiguredNormal - ConfiguredHysteresis
    /\ ~CallOvertemp
    /\ call.result = <<FALSE, FALSE>>

\* C6: in mode off should_turn_on is False for every temperature, heater state
\* and state of charge, and is_overtemp is true exactly when current_temp >=
\* max_temperature.
C6_OffNeverHeats ==
    (Called /\ call.current_mode = Mode.OFF) =>
        /\ call.result[1] = FALSE
        /\ call.result[2] = CallOvertemp

\* C6 happens: a cold reading in mode off, nothing else forcing the heater off
C6_Witness ==
    /\ Called
    /\ call.current_mode = Mode.OFF
    /\ call.current_temp < ConfiguredNormal - ConfiguredHysteresis
    /\ ~CallBatteryLow
    /\ ~CallOvertemp
    /\ call.result = <<FALSE, FALSE>>

\* t lies in the window from start to end, which crosses midnight when start > end
InWindow(t, start, end) ==
    IF start <= end THEN start <= t /\ t <= end ELSE t >= start \/ t <= end

\* The target C7 states for time-based control
TimeWindowTarget ==
    IF /\ options.normal_mode_start # None /\ options.normal_mode_end # None
       /\ options.eco_mode_start # None /\ options.eco_mode_end # None
    THEN IF InWindow(now, options.normal_mode_start[1], options.normal_mode_end[1])
         THEN Some(ConfiguredNormal)
         ELSE IF InWindow(now, options.eco_mode_start[1], options.eco_mode_end[1])
         THEN Some(ConfiguredEco)
         ELSE None
    ELSE Some(ConfiguredEco)

\* A call in optimised mode under time-based control
TimeBasedCall == Called /\ call.current_mode = Mode.OPTIMISED /\ ~options.use_solar_control

\* C7 as stated: in optimised mode with time-based control the target is the
\* normal temperature in the normal window, else the eco temperature in the
\* eco window, else there is none and the result is (False, False) whatever
\* the temperature; with a time unset the target is the eco temperature.
C7_AsStated ==
    TimeBasedCall =>
        /\ _get_optimised_target_temperature = TimeWindowTarget
        /\ TimeWindowTarget = None => call.result = <<FALSE, FALSE>>

\* C7 as amended: the same targets; outside both windows should_turn_on is
\* False whatever the temperature, and the result is (False, False) unless
\* current_temp >= max_temperature, when it is (False, True).  With a target,
\* and neither over-temperature nor the battery forcing the heater off, the
\* result is the hysteresis comparison against that target.
C7_TimeWindows ==
    TimeBasedCall =>
        /\ _get_optimised_target_temperature = TimeWindowTarget
        /\ TimeWindowTarget = None =>
               call.result = (IF CallOvertemp THEN <<FALSE, TRUE>> ELSE <<FALSE, FALSE>>)
        /\ (TimeWindowTarget # None /\ ~CallOvertemp /\ ~CallBatteryLow) =>
               call.result = <<CallBelow(TimeWindowTarget[1]), FALSE>>

\* C7 happens: outside both windows a cold heater that is off stays off
C7_Witness ==
    /\ TimeBasedCall
    /\ TimeWindowTarget = None
    /\ ~call.is_heater_on
    /\ call.current_temp < ConfiguredEco - ConfiguredHysteresis
    /\ call.current_temp < ConfiguredNormal - ConfiguredHysteresis
    /\ ~CallOvertemp /\ ~CallBatteryLow
    /\ call.result = <<FALSE, FALSE>>

\* The target C8 states for solar control
SolarTarget ==
    IF /\ options.sun_entity_id
       /\ sun # None
       /\ sun.state \notin {STATE_UNAVAILABLE, STATE_UNKNOWN}
       /\ sun.elevation # None
       /\ Len(sun.elevation) = 2
       /\ sun.elevation[2] > ConfiguredSunAngle
    THEN ConfiguredNormal
    ELSE ConfiguredEco

\* C8: in optimised mode with solar control the target is the normal
\* temperature iff a sun entity is configured, its state is available and its
\* elevation is a number strictly above the configured angle, and the eco
\* temperature in every other case; there is always a target, so with neither
\* over-temperature nor the battery forcing the heater off the result is the
\* hysteresis comparison against it.
C8_SolarTarget ==
    (Called /\ call.current_mode = Mode.OPTIMISED /\ options.use_solar_control) =>
        /\ _get_optimised_target_temperature = Some(SolarTarget)
        /\ (~CallOvertemp /\ ~CallBatteryLow) =>
               call.result = <<CallBelow(SolarTarget), FALSE>>

\* C8 happens: the elevation equals the angle, the eco temperature is the target
C8_Witness ==
    /\ Called /\ call.current_mode = Mode.OPTIMISED /\ options.use_solar_control
    /\ options.sun_entity_id
    /\ sun # None
    /\ sun.elevation = Num(ConfiguredSunAngle)
    /\ ConfiguredEco # ConfiguredNormal
    /\ _get_optimised_target_temperature = Some(ConfiguredEco)
    /\ ~CallOvertemp /\ ~CallBatteryLow
    /\ call.result = <<CallBelow(ConfiguredEco), FALSE>>

----------------------------------------------------------------------------
\* The monitor and the evaluation

\* The entities the claims call monitored: the temperature source, the switch
\* source, and the battery sensor only when battery-aware is enabled
MonitoredEntities ==
    {e \in {"temperature", "switch", "battery"} :
        \/ e = "temperature" /\ options.temperature_source_entity_id
        \/ e = "switch" /\ options.switch_source_entity_id
        \/ e = "battery" /\ options.battery_aware /\ options.battery_soc_entity_id}

StateNow(entity) ==
    IF entity = "temperature" THEN temp_state
    ELSE IF entity = "switch" THEN switch_state
    ELSE battery_state

Valid(state) == state # None /\ state # STATE_UNAVAILABLE /\ state # STATE_UNKNOWN

\* The last step was a state-change event of a monitored entity
MonitoredEvent == last.kind = "event" /\ last.entity \in MonitoredEntities

\* C2: an event whose new state is 'unavailable' or 'unknown' schedules no
\* control evaluation but the availability check, and the check, run while a
\* monitored entity is 'unavailable' or 'unknown', turns the configured heater
\* switch off if it is on and sets the status to 'Error' (stated for the hosts
\* whose registries yield the status entity).
C2_UnavailableTurnsOff ==
    /\ (MonitoredEvent /\ last.new \in {STATE_UNAVAILABLE, STATE_UNKNOWN}) =>
           last.scheduled = <<"check_availability">>
    /\ (/\ last.kind = "check_availability"
        /\ config_entry.host.status_by_entry_id = "entity"
        /\ \E e \in MonitoredEntities : StateNow(e) \in {STATE_UNAVAILABLE, STATE_UNKNOWN}) =>
           /\ switch_state = <<"on">> =>
                  \E i \in 1..Len(last.issued) : last.issued[i][2] = "turn_off"
           /\ status = "Error"

\* The data the evaluation needs is missing
MissingData ==
    \/ ~options.temperature_source_entity_id
    \/ ~options.switch_source_entity_id
    \/ ~Valid(temp_state)
    \/ ~Valid(switch_state)
    \/ temp_state = <<"garbage">>

\* C3: an evaluation that finds the temperature or switch entity id not
\* configured, the state of either absent, 'unavailable' or 'unknown', or the
\* temperature no number, issues no service call, meets no exception and
\* makes no decision.
C3_MissingDataIsInvalid ==
    (last.kind = "evaluate" /\ MissingData) =>
        /\ last.issued = <<>>
        /\ ~last.logged
        /\ call = None

\* C3 happens: the switch is unavailable while the water is cold
C3_Witness ==
    /\ last.kind = "evaluate"
    /\ switch_state = STATE_UNAVAILABLE
    /\ Valid(temp_state) /\ Len(temp_state) = 2
    /\ temp_state[2] < ConfiguredNormal - ConfiguredHysteresis
    /\ temp_state[2] < ConfiguredEco - ConfiguredHysteresis
    /\ coordinator_data # None
    /\ coordinator_data.mode = Some(Mode.NORMAL)
    /\ last.issued = <<>>

C10_AsStated ==
    (MonitoredEvent /\ (last.new = None \/ last.old = last.new)) =>
        last.scheduled = <<>> /\ last.issued = <<>>

\* C10 as amended: the same for equal old and new state values that are
\* neither 'unavailable' nor 'unknown', and for a new state of None.
C10_Debounce ==
    (MonitoredEvent /\ (last.new = None \/ (last.old = last.new /\ Valid(last.new)))) =>
        last.scheduled = <<>> /\ last.issued = <<>>

\* C10 happens: the switch source reports 'on' again
C10_Witness ==
    /\ MonitoredEvent
    /\ last.entity = "switch"
    /\ last.old = <<"on">>
    /\ last.new = <<"on">>
    /\ last.scheduled = <<>>
    /\ tasks = NoTasks

----------------------------------------------------------------------------
\* Repeated calls and the dead band

\* The last step was a later call with the arguments of an earlier one
CalledAgain == last.kind = "call_again"

\* C11 as stated: two calls of should_turn_on_heater with equal arguments
\* under one configuration return the same result, in every mode, whenever
\* they are made and whatever the state of any other entity.
C11_AsStated ==
    CalledAgain => last.new[3] = last.old[3]

\* C11 as amended: two calls with equal arguments under one configuration
\* return the same result in every mode other than optimised, whenever they
\* are made; in optimised mode they do when made at the same time of day and
\* with the same state of the sun entity.
C11_PureButForClockAndSun ==
    (/\ CalledAgain
     /\ \/ call.current_mode # Mode.OPTIMISED
        \/ last.new[1] = last.old[1] /\ last.new[2] = last.old[2]) =>
        last.new[3] = last.old[3]

\* C11 happens: eco mode, time windows configured, the second call is made at
\* another time of day and heats as the first did
C11_Witness ==
    /\ CalledAgain
    /\ TimesConfigured
    /\ ~options.use_solar_control
    /\ call.current_mode = Mode.ECO
    /\ last.new[1] # last.old[1]
    /\ last.old[3] = <<TRUE, FALSE>>
    /\ last.new[3] = <<TRUE, FALSE>>

\* should_turn_on of the call's inputs at temperature current_temp and with
\* the heater in state is_heater_on
DecisionWith(current_temp, is_heater_on) ==
    should_turn_on_heater(current_temp, call.current_mode, is_heater_on,
                          call.battery_soc, call.max_temperature)[1]

\* C12: for fixed inputs it is never the case that the decision with the
\* heater on is off while the decision with the heater off is on; and when
\* the decision with the heater on is off at temperature T, the decision with
\* the heater off is on only at temperatures below T.
C12_NoCycling ==
    Called =>
        /\ call.result[1] = DecisionWith(call.current_temp, call.is_heater_on)
        /\ ~(~DecisionWith(call.current_temp, TRUE) /\ DecisionWith(call.current_temp, FALSE))
        /\ \A later \in Readings :
               (~DecisionWith(call.current_temp, TRUE) /\ DecisionWith(later, FALSE)) =>
                   later < call.current_temp

\* C12 happens: inside the dead band the heater that is on stays on and the
\* heater that is off stays off; with the battery between its two thresholds
\* likewise
C12_Witness ==
    /\ Called
    /\ call.current_mode = Mode.NORMAL
    /\ call.is_heater_on
    /\ call.result = <<TRUE, FALSE>>
    /\ DecisionWith(call.current_temp, TRUE)
    /\ ~DecisionWith(call.current_temp, FALSE)
    /\ call.current_temp >= ConfiguredNormal - ConfiguredHysteresis
    /\ call.current_temp < ConfiguredNormal + ConfiguredHysteresis

----------------------------------------------------------------------------
\* The validator of the time windows

\* The time a string denotes in either format, None when it denotes none
TimeOf(text) ==
    IF text = None \/ text = <<"garbage">> THEN None ELSE Some(text[2])

\* Some time of day lies in both the normal and the eco range of the call
RangesShareATime ==
    \E t \in 0..MaxTime :
        /\ InWindow(t, TimeOf(call.normal_start)[1], TimeOf(call.normal_end)[1])
        /\ InWindow(t, TimeOf(call.eco_start)[1], TimeOf(call.eco_end)[1])

\* C13: validate_time_ranges_no_overlap returns False when one of the four
\* strings is no HH:MM or HH:MM:SS time, and otherwise True iff no time of
\* day lies in both ranges, a range with start <= end being [start, end] and
\* one with start > end crossing midnight.
C13_NoOverlap ==
    (last.kind = "validate") =>
        IF \E text \in {call.normal_start, call.normal_end, call.eco_start, call.eco_end} :
               TimeOf(text) = None
        THEN call.result = Some(FALSE)
        ELSE call.result = Some(~RangesShareATime)

\* C13 happens: the eco range holds the whole normal range, and neither end
\* of the eco range lies in the normal range
C13_Witness ==
    /\ last.kind = "validate"
    /\ \A text \in {call.normal_start, call.normal_end, call.eco_start, call.eco_end} :
           TimeOf(text) # None
    /\ TimeOf(call.eco_start)[1] < TimeOf(call.normal_start)[1]
    /\ TimeOf(call.normal_start)[1] <= TimeOf(call.normal_end)[1]
    /\ TimeOf(call.normal_end)[1] < TimeOf(call.eco_end)[1]
    /\ call.result = Some(FALSE)

----------------------------------------------------------------------------
\* The mode, the select entity and the setup

\* The last step was an evaluation that reached the decision
Decided == last.kind \in {"evaluate", "check_availability", "setup"} /\ call # None

\* C14: once the select entity exists, the mode an evaluation uses for its
\* decision is the mode the select entity reports as current_option, after
\* any sequence of restores, selections, refreshes and evaluations.
C14_ModeConsistent ==
    (Decided /\ _attr_current_option # None) => call.current_mode = current_option

\* C15: async_select_option with a valid mode stores it and creates the task
\* that triggers the control logic, except for off while the status sensor
\* reads 'Overtemp'; and the task, when run, brings about an evaluation.
C15_SelectTriggersEvaluation ==
    /\ last.kind = "select" =>
           /\ coordinator_data.mode = last.new
           /\ last.scheduled = (IF last.new = Some(Mode.OFF) /\ status = "Overtemp"
                                THEN <<>> ELSE <<"trigger_control_logic">>)
    /\ last.kind = "trigger_control_logic" => last.scheduled = <<"evaluate">>

\* C18: the initial evaluation of the setup, run with a temperature and a
\* switch state at hand, reaches the decision and issues the command the
\* decision asks for.
C18_InitialEvaluationApplies ==
    (last.kind = "setup" /\ ~MissingData) =>
        /\ ~last.logged
        /\ call # None
        /\ last.issued = Commands(call.result, call.is_heater_on)

----------------------------------------------------------------------------
\* Over-temperature, recovery and the commands of one evaluation

ConfiguredMax == Get(temperatures.max_temperature, DEFAULT_MAX_TEMPERATURE)

\* A state string is a reading at or above the maximum temperature
OvertempReading(state) == state # None /\ Len(state) = 2 /\ state[2] >= ConfiguredMax

\* The last step issued a turn_off
TurnOffIssued == \E i \in 1..Len(last.issued) : last.issued[i][2] = "turn_off"

\* C16: after the setup, when the temperature source changes to a reading at
\* or above the maximum temperature while the switch is on, whatever its
\* previous state, a turn_off is issued in the end (unless the switch leaves
\* 'on' or the temperature leaves the over-temperature range before).
C16_OvertempTurnsOff ==
    (/\ last.kind = "event" /\ last.entity = "temperature"
     /\ OvertempReading(last.new)
     /\ last.old # last.new
     /\ switch_state = <<"on">>
     /\ options.switch_source_entity_id
     /\ coordinator_data # None)
    ~> (TurnOffIssued \/ switch_state # <<"on">> \/ ~OvertempReading(temp_state))

\* C17: an availability check run while the status is 'Error' sets the status
\* to 'Normal' and runs the evaluation when the temperature source, the
\* switch source and (battery-aware) the battery sensor are all available;
\* when one of them is not, the status stays 'Error', no decision is made
\* and no turn_on is issued.
C17_Recovery ==
    (last.kind = "check_availability" /\ last.old = Some("Error")) =>
        IF \A e \in MonitoredEntities : Valid(StateNow(e))
        THEN /\ status = "Normal"
             /\ (~MissingData /\ coordinator_data # None) => call # None
        ELSE /\ status = "Error"
             /\ call = None
             /\ \A i \in 1..Len(last.issued) : last.issued[i][2] # "turn_on"

\* The switch commands among service calls
SwitchCommands(issued) ==
    SelectSeq(issued, LAMBDA c : c[2] \in {"turn_on", "turn_off"})

\* C19: one evaluation issues at most one switch command: turn_on only when
\* the decision is on and the switch is not 'on', turn_off only when the
\* decision is off and the switch is 'on', none when they agree or no
\* decision is made; and it addresses the configured switch source entity.
C19_AtMostOneCommand ==
    (last.kind = "evaluate") =>
        LET commands == SwitchCommands(last.issued)
        IN  /\ Len(commands) <= 1
            /\ \A i \in 1..Len(commands) :
                   /\ commands[i][3] = "switch_source_entity_id"
                   /\ call # None
                   /\ commands[i][2] = "turn_on" =>
                          call.result[1] /\ switch_state # <<"on">>
                   /\ commands[i][2] = "turn_off" =>
                          ~call.result[1] /\ switch_state = <<"on">>
            /\ (call # None /\ call.result[1] = (switch_state = <<"on">>)) => commands = <<>>
            /\ call = None => commands = <<>>

\* C19 happens: cold water and the switch off, the evaluation turns it on
C19_Witness ==
    /\ last.kind = "evaluate"
    /\ call # None
    /\ call.result = <<TRUE, FALSE>>
    /\ switch_state = <<"off">>
    /\ last.issued = <<TurnOn>>

====
